---- MODULE Spec2Model ----
(***************************************************************************)
(* A model of the retrieval pipeline of ai-interprep:                      *)
(*   src/ingest.py, src/ingest_technical_qa.py, src/ingest_general_kb.py   *)
(*   (ingestion into a ChromaDB collection) and src/rag_api.py (the        *)
(*   /retrieve endpoint).                                                  *)
(*                                                                         *)
(* Texts are Python strings in run-length form: a sequence of runs         *)
(* [c |-> character, n |-> count >= 1] in which adjacent runs differ in c. *)
(* The form is canonical, so equality of texts is equality of strings.     *)
(***************************************************************************)
EXTENDS Integers, Sequences, FiniteSets, TLC

VARIABLES
    script,             \* which ingestion entry point the process runs
    corpus,             \* the records loaded from the corpus file
    pc,                 \* position of the ingestion process
    collection,         \* the script's named collection in ./chroma_db
    startColl,          \* the collection as the current run found it
    confirmed,          \* the user answered 'y' to the recreate prompt in this run
    ids, embeddings, documents, metadatas,   \* the four accumulators of main()
    recIdx,             \* i of "for i, exp in enumerate(experiences, 1)"
    description_chunks, \* the chunks of the record being processed
    chunkIdx,           \* chunk_idx of the inner loop
    embedLog,           \* every request sent to the embedding service in this run
    skipped,            \* <<i, chunk_idx>> of every "Failed to generate embedding" line
    writes,             \* every batch handed to collection.add in this run
    batch_idx,          \* batch_idx of the write loop
    requests,           \* the /retrieve requests in flight
    call                \* the last call of a function called on its own, and its outcome

ingestVars == <<script, corpus, pc, collection, startColl, confirmed, ids, embeddings,
                documents, metadatas, recIdx, description_chunks, chunkIdx, embedLog,
                skipped, writes, batch_idx>>
vars == <<script, corpus, pc, collection, startColl, confirmed, ids, embeddings,
          documents, metadatas, recIdx, description_chunks, chunkIdx, embedLog,
          skipped, writes, batch_idx, requests, call>>

---------------------------------------------------------------------------
(* Python values                                                           *)

\* None, and the value of a key the record does not have. Both are written as a
\* run of length 0, which no text contains.
None == <<[c |-> "None", n |-> 0]>>
Absent == <<[c |-> "Absent", n |-> 0]>>
AbsentTags == <<Absent>>    \* a record without a 'tags' key
AbsentId == <<>>            \* a record without an 'id' key; an id n is <<n>>

Min(a, b) == IF a <= b THEN a ELSE b

Run(c, n) == [c |-> c, n |-> n]

EmptyText == <<>>

\* s1 + s2, in canonical form: the runs that meet are merged when they hold the
\* same character.
Concat(s, t) ==
    IF s = <<>> THEN t
    ELSE IF t = <<>> THEN s
    ELSE IF s[Len(s)].c = t[1].c
    THEN SubSeq(s, 1, Len(s) - 1) \o <<Run(t[1].c, s[Len(s)].n + t[1].n)>> \o Tail(t)
    ELSE s \o t

\* The text of a sequence of runs: adjacent runs of one character are merged.
RECURSIVE Normalize(_)
Normalize(t) ==
    IF Len(t) <= 1 THEN t
    ELSE Concat(Normalize(SubSeq(t, 1, Len(t) - 1)), <<t[Len(t)]>>)

\* A literal, written as the sequence of its characters.
Lit(chars) == Normalize([i \in 1..Len(chars) |-> Run(chars[i], 1)])

\* "a" * n
Rep(c, n) == IF n = 0 THEN EmptyText ELSE <<Run(c, n)>>

\* len(s)
RECURSIVE TextLen(_)
TextLen(t) == IF t = <<>> THEN 0 ELSE t[1].n + TextLen(Tail(t))

IsSpace(c) == c \in {" ", "\n", "\t"}

RECURSIVE LStrip(_)
LStrip(t) == IF t # <<>> /\ IsSpace(t[1].c) THEN LStrip(Tail(t)) ELSE t

RECURSIVE RStrip(_)
RStrip(t) ==
    IF t # <<>> /\ IsSpace(t[Len(t)].c) THEN RStrip(SubSeq(t, 1, Len(t) - 1)) ELSE t

\* s.strip()
Strip(t) == RStrip(LStrip(t))

\* s[a:b] for 0 <= a, 0 <= b
RECURSIVE Slice(_, _, _)
Slice(t, a, b) ==
    IF t = <<>> \/ b <= 0 \/ b <= a THEN <<>>
    ELSE LET n == t[1].n
             lo == Min(a, n)
             hi == Min(b, n)
             rest == Slice(Tail(t), a - lo, b - n)
         IN IF hi > lo THEN <<Run(t[1].c, hi - lo)>> \o rest ELSE rest

\* The characters of s, one per element.
RECURSIVE Expand(_)
Expand(t) ==
    IF t = <<>> THEN <<>> ELSE [i \in 1..t[1].n |-> t[1].c] \o Expand(Tail(t))

LowerChar(c) ==
    CASE c = "Q" -> "q" [] c = "U" -> "u" [] c = "E" -> "e" [] c = "R" -> "r"
      [] c = "Y" -> "y" [] c = "A" -> "a" [] c = "T" -> "t" [] OTHER -> c

\* s.lower()
Lower(t) == Normalize([i \in 1..Len(t) |-> Run(LowerChar(t[i].c), t[i].n)])

\* pat in s
Contains(t, pat) ==
    LET s == Expand(t)
        p == Expand(pat)
    IN \E k \in 0..(Len(s) - Len(p)) : SubSeq(s, k + 1, k + Len(p)) = p

\* ", ".join(parts) and the like
RECURSIVE Join(_, _)
Join(sep, parts) ==
    IF parts = <<>> THEN EmptyText
    ELSE IF Len(parts) = 1 THEN parts[1]
    ELSE Concat(Concat(parts[1], sep), Join(sep, Tail(parts)))

\* str(n) for the small non-negative integers the corpora use
Digit(n) == CASE n = 0 -> "0" [] n = 1 -> "1" [] n = 2 -> "2" [] n = 3 -> "3"
              [] n = 4 -> "4" [] n = 5 -> "5" [] n = 6 -> "6" [] n = 7 -> "7"
              [] n = 8 -> "8" [] n = 9 -> "9"

RECURSIVE Str(_)
Str(n) == IF n < 10 THEN Lit(<<Digit(n)>>)
          ELSE Concat(Str(n \div 10), Lit(<<Digit(n % 10)>>))

---------------------------------------------------------------------------
(* String literals of the sources                                          *)

L_Title == Lit(<<"T", "i", "t", "l", "e", ":", " ">>)
L_Company == Lit(<<"\n", "C", "o", "m", "p", "a", "n", "y", ":", " ">>)
L_Description == Lit(<<"\n", "D", "e", "s", "c", "r", "i", "p", "t", "i", "o", "n", ":", " ">>)
L_Situation == Lit(<<"\n", "S", "i", "t", "u", "a", "t", "i", "o", "n", ":", " ">>)
L_Task == Lit(<<"\n", "T", "a", "s", "k", ":", " ">>)
L_Action == Lit(<<"\n", "A", "c", "t", "i", "o", "n", ":", " ">>)
L_Result == Lit(<<"\n", "R", "e", "s", "u", "l", "t", ":", " ">>)
L_EXPERIENCE == Lit(<<"E", "X", "P", "E", "R", "I", "E", "N", "C", "E", " ">>)
L_Dash == Lit(<<" ", "-", " ">>)
L_StarSituation == Lit(<<":", "\n", "S", "i", "t", "u", "a", "t", "i", "o", "n", ":", " ", "\"">>)
L_StarTask == Lit(<<"\"", "\n", "\n", "T", "a", "s", "k", ":", " ", "\"">>)
L_StarAction == Lit(<<"\"", "\n", "\n", "A", "c", "t", "i", "o", "n", ":", " ", "\"">>)
L_StarResult == Lit(<<"\"", "\n", "\n", "R", "e", "s", "u", "l", "t", ":", " ", "\"">>)
L_StarEnd == Lit(<<"\"", "\n">>)
L_exp == Lit(<<"e", "x", "p", "_">>)
L_chunk == Lit(<<"_", "c", "h", "u", "n", "k", "_">>)
L_qa == Lit(<<"q", "a", "_">>)
L_Question == Lit(<<"Q", "u", "e", "s", "t", "i", "o", "n", ":", " ">>)
L_Answer == Lit(<<"A", "n", "s", "w", "e", "r", ":", " ">>)
L_AnswerPart == Lit(<<"\n", "\n", "A", "n", "s", "w", "e", "r", " ", "(", "p", "a", "r", "t", " ">>)
L_PartEnd == Lit(<<")", ":", " ">>)
L_Tags == Lit(<<"T", "a", "g", "s", ":", " ">>)
L_Category == Lit(<<"C", "a", "t", "e", "g", "o", "r", "y", ":", " ">>)
L_NLNL == Lit(<<"\n", "\n">>)
L_NLNLTags == Lit(<<"\n", "\n", "T", "a", "g", "s", ":", " ">>)
L_NLCategory == Lit(<<"\n", "C", "a", "t", "e", "g", "o", "r", "y", ":", " ">>)
L_CommaSpace == Lit(<<",", " ">>)
L_query == Lit(<<"q", "u", "e", "r", "y">>)

---------------------------------------------------------------------------
(* Chunker: chunk_description (ingest.py) and chunk_text (technical Q&A)   *)

DefaultChunkSize == 300
DefaultChunkOverlap == 50

\* text_splitter.split_text(text) of RecursiveCharacterTextSplitter, for texts
\* whose pieces are single characters (no separator of the list but "" applies
\* inside a window): windows of chunk_size characters, each starting
\* chunk_size - chunk_overlap after the one before, each stripped, empty ones
\* dropped. The long texts of the corpora below contain no separator.
RECURSIVE Windows(_, _, _, _)
Windows(text, start, chunk_size, chunk_overlap) ==
    LET piece == Strip(Slice(text, start, start + chunk_size))
        here == IF piece = EmptyText THEN <<>> ELSE <<piece>>
    IN IF start + chunk_size >= TextLen(text) THEN here
       ELSE here \o Windows(text, start + (chunk_size - chunk_overlap),
                            chunk_size, chunk_overlap)

split_text(text, chunk_size, chunk_overlap) == Windows(text, 0, chunk_size, chunk_overlap)

\* "not description": None and '' are falsy.
Falsy(text) == text = None \/ text = EmptyText

chunk_description(description, chunk_size, chunk_overlap) ==
    IF Falsy(description) \/ TextLen(Strip(description)) = 0
    THEN IF ~Falsy(description) THEN <<description>> ELSE <<EmptyText>>
    ELSE split_text(description, chunk_size, chunk_overlap)

chunk_text(text, chunk_size, chunk_overlap) ==
    IF Falsy(text) \/ TextLen(Strip(text)) = 0
    THEN IF ~Falsy(text) THEN <<text>> ELSE <<EmptyText>>
    ELSE split_text(text, chunk_size, chunk_overlap)

---------------------------------------------------------------------------
(* EmbeddingClient: get_embedding of ingest.py, ingest_technical_qa.py and *)
(* rag_api.py                                                              *)

Omitted == "omitted"        \* a request without task_type

\* What the service does with one request: it answers with a vector, raises
\* (network or API error), or answers without an 'embedding' key.
Outcomes == {"ok", "error", "malformed"}
Services == Outcomes \X Outcomes    \* its answers to the first and second request

\* The vector the model returns: a function of the content and the intent.
EmbedContent(content, task_type) == [content |-> content, task_type |-> task_type]

NoVector == EmbedContent(EmptyText, "no vector")   \* no vector was returned

\* The task_type of the first request. rag_api.py:53 chooses it from the text;
\* the two ingestion scripts always send retrieval_document.
PrimaryTaskType(caller, text) ==
    IF caller = "rag_api"
    THEN IF Contains(Lower(text), L_query) THEN "retrieval_query" ELSE "retrieval_document"
    ELSE "retrieval_document"

\* A faulty variant of get_embedding: the fallback request keeps the intent and a
\* third request follows a second failure.
get_embedding_retrying(caller, text, svc) ==
    LET first == [content |-> text, task_type |-> PrimaryTaskType(caller, text)]
    IN IF svc[1] = "ok"
       THEN [requests |-> <<first>>, raised |-> FALSE,
             embedding |-> EmbedContent(text, first.task_type)]
       ELSE IF svc[2] = "ok"
       THEN [requests |-> <<first, first>>, raised |-> FALSE,
             embedding |-> EmbedContent(text, first.task_type)]
       ELSE [requests |-> <<first, first, first>>, raised |-> TRUE, embedding |-> NoVector]

\* get_embedding(text, api_key): the requests it sends, whether it raises, and
\* the vector it returns.
get_embedding(caller, text, svc) ==
    LET first == [content |-> text, task_type |-> PrimaryTaskType(caller, text)]
        second == [content |-> text, task_type |-> Omitted]
    IN IF svc[1] = "ok"
       THEN [requests |-> <<first>>, raised |-> FALSE,
             embedding |-> EmbedContent(text, first.task_type)]
       ELSE IF svc[2] = "ok"
       THEN [requests |-> <<first, second>>, raised |-> FALSE,
             embedding |-> EmbedContent(text, Omitted)]
       ELSE [requests |-> <<first, second>>, raised |-> TRUE, embedding |-> NoVector]

---------------------------------------------------------------------------
(* Source records and what ingestion derives from them                     *)

\* dict.get(key, default)
Get(rec, key, default) == IF rec[key] = Absent THEN default ELSE rec[key]

\* qa.get('category') and qa.get('tags') as conditions
TruthyText(v) == v # Absent /\ v # None /\ v # EmptyText
TruthyTags(v) == v # AbsentTags /\ v # <<>>

\* create_star_format_text(experience)
create_star_format_text(exp) ==
    Join(EmptyText, <<L_EXPERIENCE, Str(exp.id), L_Dash, exp.title,
                      L_StarSituation, exp.situation, L_StarTask, exp.task,
                      L_StarAction, exp.action, L_StarResult, exp.result, L_StarEnd>>)

\* The single chunk main() synthesizes for a record without a description.
FallbackDocument(exp) ==
    Join(EmptyText, <<L_Title, exp.title, L_Company, exp.company,
                      L_Situation, Get(exp, "situation", EmptyText),
                      L_Task, Get(exp, "task", EmptyText),
                      L_Action, Get(exp, "action", EmptyText),
                      L_Result, Get(exp, "result", EmptyText)>>)

\* A chunk of the description with title and company prepended.
DescribedDocument(exp, chunk) ==
    Join(EmptyText, <<L_Title, exp.title, L_Company, exp.company, L_Description, chunk>>)

\* A faulty variant of ExperienceChunks: no document is synthesized, a record without
\* a description yields no chunk.
ExperienceChunksDropping(exp) ==
    LET chunks == chunk_description(Get(exp, "description", EmptyText),
                                    DefaultChunkSize, DefaultChunkOverlap)
    IN IF chunks = <<>> \/ (Len(chunks) = 1 /\ Strip(chunks[1]) = EmptyText)
       THEN <<>>
       ELSE [k \in 1..Len(chunks) |-> DescribedDocument(exp, chunks[k])]

\* description_chunks of main() once the record has been chunked.
ExperienceChunks(exp) ==
    LET chunks == chunk_description(Get(exp, "description", EmptyText),
                                    DefaultChunkSize, DefaultChunkOverlap)
    IN IF chunks = <<>> \/ (Len(chunks) = 1 /\ Strip(chunks[1]) = EmptyText)
       THEN <<FallbackDocument(exp)>>
       ELSE [k \in 1..Len(chunks) |-> DescribedDocument(exp, chunks[k])]

\* chunk_id = f"exp_{exp['id']}_chunk_{chunk_idx}"
ExperienceChunkId(exp, chunk_idx) ==
    Join(EmptyText, <<L_exp, Str(exp.id), L_chunk, Str(chunk_idx)>>)

ExperienceMetadata(exp, chunk_idx, total_chunks) ==
    [experience_id |-> exp.id, title |-> exp.title, company |-> exp.company,
     chunk_index |-> chunk_idx, total_chunks |-> total_chunks,
     star_format |-> create_star_format_text(exp)]

\* ", ".join(qa.get('tags', []))
JoinedTags(qa) == Join(L_CommaSpace, IF qa.tags = AbsentTags THEN <<>> ELSE qa.tags)

\* create_text_for_embedding(qa)
create_text_for_embedding(qa) ==
    Join(L_NLNL,
         <<Concat(L_Question, Get(qa, "question", EmptyText)),
           Concat(L_Answer, Get(qa, "answer", EmptyText))>>
         \o (IF TruthyTags(qa.tags) THEN <<Concat(L_Tags, JoinedTags(qa))>> ELSE <<>>)
         \o (IF TruthyText(qa.category)
             THEN <<Concat(L_Category, Get(qa, "category", EmptyText))>> ELSE <<>>))

AnswerThreshold == 500
QuestionCut == 200
AnswerCut == 500

\* Whether main() chunks the answer of this Q&A pair.
LongAnswer(qa) == TextLen(Get(qa, "answer", EmptyText)) > AnswerThreshold

\* chunk_text_content of one part of a long answer.
AnswerPartDocument(qa, chunk_idx, answer_chunk) ==
    Join(EmptyText,
         <<L_Question, Get(qa, "question", EmptyText), L_AnswerPart, Str(chunk_idx + 1),
           L_PartEnd, answer_chunk>>
         \o (IF TruthyTags(qa.tags) THEN <<L_NLNLTags, JoinedTags(qa)>> ELSE <<>>)
         \o (IF TruthyText(qa.category)
             THEN <<L_NLCategory, Get(qa, "category", EmptyText)>> ELSE <<>>))

\* The texts main() embeds for one Q&A pair, in order.
QaChunks(qa) ==
    IF LongAnswer(qa)
    THEN LET answer_chunks == chunk_text(Get(qa, "answer", EmptyText),
                                         DefaultChunkSize, DefaultChunkOverlap)
         IN [k \in 1..Len(answer_chunks) |-> AnswerPartDocument(qa, k - 1, answer_chunks[k])]
    ELSE <<create_text_for_embedding(qa)>>

\* qa.get('id', i)
QaId(qa, i) == IF qa.id = AbsentId THEN i ELSE qa.id[1]

\* f"qa_{id}_chunk_{chunk_idx}" for a part of a long answer, f"qa_{id}" otherwise
QaChunkId(qa, i, chunk_idx) ==
    IF LongAnswer(qa)
    THEN Join(EmptyText, <<L_qa, Str(QaId(qa, i)), L_chunk, Str(chunk_idx)>>)
    ELSE Concat(L_qa, Str(QaId(qa, i)))

QaMetadata(qa, i, chunk_idx, total_chunks) ==
    [qa_id |-> QaId(qa, i),
     question |-> Slice(Get(qa, "question", EmptyText), 0, QuestionCut),
     answer |-> Slice(Get(qa, "answer", EmptyText), 0, AnswerCut),
     tags |-> JoinedTags(qa),
     category |-> Get(qa, "category", EmptyText),
     chunk_index |-> chunk_idx, total_chunks |-> total_chunks]

---------------------------------------------------------------------------
(* VectorIndex: the ChromaDB collection the scripts and the API share      *)

NoCollection == [exists |-> FALSE, entries |-> <<>>]
EmptyCollection == [exists |-> TRUE, entries |-> <<>>]

Entry(id, embedding, document, metadata) ==
    [id |-> id, embedding |-> embedding, document |-> document, metadata |-> metadata]

IdsOf(entries) == {entries[k].id : k \in 1..Len(entries)}

\* Some id occurs twice in the batch: collection.add rejects the whole batch.
DuplicateIds(batch) == \E a, b \in 1..Len(batch) : a # b /\ batch[a].id = batch[b].id

WithoutKnown(batch, known) == SelectSeq(batch, LAMBDA e : e.id \notin known)

\* collection.add(ids=..., embeddings=..., documents=..., metadatas=...): an id the
\* collection already holds is left as it is, the other entries are appended.
StoreAdd(entries, batch) == entries \o WithoutKnown(batch, IdsOf(entries))

---------------------------------------------------------------------------
(* The corpora of the model                                                *)

LongDescriptionLen == 301       \* two chunks of at most 300 characters
LongAnswerLen == 501            \* an answer main() chunks, into two chunks

Experience(id, description) ==
    [id |-> id, title |-> Concat(Lit(<<"T">>), Str(id)), company |-> Lit(<<"C">>),
     description |-> description, situation |-> Lit(<<"<", "s", ">">>),
     task |-> Lit(<<"<", "t", ">">>), action |-> Lit(<<"<", "a", ">">>),
     result |-> Lit(<<"<", "r", ">">>)]

\* Descriptions that are absent, null, empty or whitespace only.
BlankDescriptions == {Absent, None, EmptyText, Rep(" ", 2), Lit(<<" ", "\n", "\t">>)}

ExperienceCorpora ==
    {<<>>}
    \cup {<<Experience(1, Rep("x", LongDescriptionLen)), Experience(2, d)>> :
            d \in BlankDescriptions \cup {Lit(<<"x", " ", "y">>)}}

Qa(id, answer, tags, category) ==
    [id |-> id, question |-> Lit(<<"q", "?">>), answer |-> answer, tags |-> tags,
     category |-> category]

TechnicalQaCorpora ==
    {<<>>,
     <<Qa(<<1>>, Rep("x", LongAnswerLen), <<Lit(<<"g">>), Lit(<<"h">>)>>, Lit(<<"c">>)),
       Qa(<<2>>, Lit(<<"y">>), AbsentTags, Absent)>>,
     <<Qa(<<7>>, Lit(<<"y">>), <<>>, EmptyText),
       Qa(AbsentId, Rep("x", LongAnswerLen), AbsentTags, Lit(<<"c">>))>>,
     \* a record with id 2 followed by the second record, which has no id
     <<Qa(<<2>>, Lit(<<"y">>), AbsentTags, Absent),
       Qa(AbsentId, Lit(<<"z">>), AbsentTags, Absent)>>}

KbEntry(id, content) == [id |-> id, content |-> content, title |-> Lit(<<"k">>)]

GeneralKbCorpora ==
    {<<KbEntry(Lit(<<"k", "1">>), Lit(<<"x">>)), KbEntry(Lit(<<"k", "2">>), Lit(<<"y">>))>>}

Scripts == {"ingest", "ingest_technical_qa", "ingest_general_kb"}

CorporaOf(s) ==
    CASE s = "ingest" -> ExperienceCorpora
      [] s = "ingest_technical_qa" -> TechnicalQaCorpora
      [] s = "ingest_general_kb" -> GeneralKbCorpora

---------------------------------------------------------------------------
(* IngestionPipeline: main() of ingest.py and ingest_technical_qa.py, and  *)
(* the module body of ingest_general_kb.py                                 *)

batch_size == 100

NoCall == [caller |-> "none"]
NoRequests == <<>>

\* The texts main() embeds for record i of the corpus, in order.
ChunksOf(s, rec) == IF s = "ingest" THEN ExperienceChunks(rec) ELSE QaChunks(rec)

ChunkIdOf(s, rec, i, chunk_idx) ==
    IF s = "ingest" THEN ExperienceChunkId(rec, chunk_idx) ELSE QaChunkId(rec, i, chunk_idx)

MetadataOf(s, rec, i, chunk_idx, total_chunks) ==
    IF s = "ingest" THEN ExperienceMetadata(rec, chunk_idx, total_chunks)
    ELSE QaMetadata(rec, i, chunk_idx, total_chunks)

ResetLocals ==
    /\ ids' = <<>>
    /\ embeddings' = <<>>
    /\ documents' = <<>>
    /\ metadatas' = <<>>
    /\ recIdx' = 1
    /\ description_chunks' = <<>>
    /\ chunkIdx' = 0
    /\ embedLog' = <<>>
    /\ skipped' = <<>>
    /\ writes' = <<>>
    /\ batch_idx' = 0
    /\ confirmed' = FALSE

\* A process starts: the corpus is loaded and the collection looked up.
\* ingest_technical_qa.py returns at once on an empty corpus.
StartRun ==
    /\ pc = "start"
    /\ script \in {"ingest", "ingest_technical_qa"}
    /\ pc' = IF script = "ingest_technical_qa" /\ Len(corpus) = 0 THEN "done"
             ELSE IF collection.exists THEN "prompt" ELSE "records"
    /\ collection' = IF script = "ingest_technical_qa" /\ Len(corpus) = 0 THEN collection
                     ELSE IF collection.exists THEN collection ELSE EmptyCollection
    /\ UNCHANGED <<script, corpus, startColl, confirmed, ids, embeddings, documents,
                   metadatas, recIdx, description_chunks, chunkIdx, embedLog, skipped,
                   writes, batch_idx, requests, call>>

\* What input() gives after .strip().lower(); "EOF" is input() raising EOFError.
Answers == {"y", "n", "", "yes", "EOF"}

\* "Do you want to recreate the collection? (y/N)". On EOFError the except branch
\* calls create_collection for a name that exists, which raises: the run dies.
Prompt(response) ==
    /\ pc = "prompt"
    /\ IF response = "y"
       THEN /\ collection' = EmptyCollection
            /\ confirmed' = TRUE
            /\ pc' = "records"
       ELSE /\ pc' = IF response = "EOF" THEN "crashed" ELSE "done"
            /\ UNCHANGED <<collection, confirmed>>
    /\ UNCHANGED <<script, corpus, startColl, ids, embeddings, documents, metadatas,
                   recIdx, description_chunks, chunkIdx, embedLog, skipped, writes,
                   batch_idx, requests, call>>

\* The head of the record loop: the record is chunked, or the loop ends.
NextRecord ==
    /\ pc = "records"
    /\ IF recIdx <= Len(corpus)
       THEN /\ description_chunks' = ChunksOf(script, corpus[recIdx])
            /\ chunkIdx' = 0
            /\ pc' = "chunks"
       ELSE /\ pc' = "write"
            /\ UNCHANGED <<description_chunks, chunkIdx>>
    /\ UNCHANGED <<script, corpus, collection, startColl, confirmed, ids, embeddings,
                   documents, metadatas, recIdx, embedLog, skipped, writes, batch_idx,
                   requests, call>>

\* A faulty variant of Accumulate: the id is appended before the embedding is requested,
\* so a failed chunk leaves its id behind.
AccumulateIdFirst(r, chunk_id, chunk_text_, metadata) ==
    /\ ids' = Append(ids, chunk_id)
    /\ IF r.raised
       THEN UNCHANGED <<embeddings, documents, metadatas>>
       ELSE /\ embeddings' = Append(embeddings, r.embedding)
            /\ documents' = Append(documents, chunk_text_)
            /\ metadatas' = Append(metadatas, metadata)

\* The body of the chunk loop after get_embedding returned r: `continue` when it
\* raised, four appends when it did not.
Accumulate(r, chunk_id, chunk_text_, metadata) ==
    IF r.raised
    THEN UNCHANGED <<ids, embeddings, documents, metadatas>>
    ELSE /\ ids' = Append(ids, chunk_id)
         /\ embeddings' = Append(embeddings, r.embedding)
         /\ documents' = Append(documents, chunk_text_)
         /\ metadatas' = Append(metadatas, metadata)

\* One pass of the chunk loop, the embedding service answering as svc says.
EmbedChunk(svc) ==
    /\ pc = "chunks"
    /\ IF chunkIdx < Len(description_chunks)
       THEN LET rec == corpus[recIdx]
                chunk_text_ == description_chunks[chunkIdx + 1]
                r == get_embedding(script, chunk_text_, svc)
            IN /\ embedLog' = embedLog \o r.requests
               /\ skipped' = IF r.raised THEN Append(skipped, <<recIdx, chunkIdx>>)
                             ELSE skipped
               /\ Accumulate(r, ChunkIdOf(script, rec, recIdx, chunkIdx), chunk_text_,
                             MetadataOf(script, rec, recIdx, chunkIdx,
                                        Len(description_chunks)))
               /\ chunkIdx' = chunkIdx + 1
               /\ UNCHANGED <<recIdx, pc>>
       ELSE /\ recIdx' = recIdx + 1
            /\ pc' = "records"
            /\ UNCHANGED <<ids, embeddings, documents, metadatas, chunkIdx, embedLog,
                           skipped>>
    /\ UNCHANGED <<script, corpus, collection, startColl, confirmed, description_chunks,
                   writes, batch_idx, requests, call>>

\* A faulty variant of TotalBatches: the division rounds down and the last, partial
\* batch is never written.
TotalBatchesRoundedDown(n) == n \div batch_size

\* (len(ids) + batch_size - 1) // batch_size
TotalBatches(n) == (n + batch_size - 1) \div batch_size

\* The batch main() builds for batch_idx from the four accumulators.
BatchAt(b) ==
    LET start_idx == b * batch_size
        end_idx == Min((b + 1) * batch_size, Len(ids))
    IN [k \in 1..(end_idx - start_idx) |->
          Entry(ids[start_idx + k], embeddings[start_idx + k],
                documents[start_idx + k], metadatas[start_idx + k])]

\* "if ids:" and one pass of the batch loop. A batch with a repeated id is
\* rejected by the store and the exception ends the run.
WriteBatch ==
    /\ pc = "write"
    /\ IF Len(ids) > 0 /\ batch_idx < TotalBatches(Len(ids))
       THEN LET batch == BatchAt(batch_idx)
            IN /\ writes' = Append(writes, batch)
               /\ IF DuplicateIds(batch)
                  THEN /\ pc' = "crashed"
                       /\ UNCHANGED <<collection, batch_idx>>
                  ELSE /\ collection' = [collection EXCEPT
                                           !.entries = StoreAdd(collection.entries, batch)]
                       /\ batch_idx' = batch_idx + 1
                       /\ UNCHANGED pc
       ELSE /\ pc' = "done"
            /\ UNCHANGED <<collection, writes, batch_idx>>
    /\ UNCHANGED <<script, corpus, startColl, confirmed, ids, embeddings, documents,
                   metadatas, recIdx, description_chunks, chunkIdx, embedLog, skipped,
                   requests, call>>

\* ingest_general_kb.py up to create_collection: the collection is deleted when
\* it is listed, and created.
KbRecreate ==
    /\ pc = "start"
    /\ script = "ingest_general_kb"
    /\ collection' = EmptyCollection
    /\ pc' = "kb_add"
    /\ UNCHANGED <<script, corpus, startColl, confirmed, ids, embeddings, documents,
                   metadatas, recIdx, description_chunks, chunkIdx, embedLog, skipped,
                   writes, batch_idx, requests, call>>

KbBatch(vectors) ==
    [k \in 1..Len(corpus) |->
       Entry(corpus[k].id, vectors[k], corpus[k].content,
             [title |-> Get(corpus[k], "title", EmptyText), kb |-> "general"])]

\* collection.add(ids, documents, metadatas): the collection's embedding function
\* embeds the documents; when it raises nothing is added and the script dies.
KbAdd(outcome) ==
    /\ pc = "kb_add"
    /\ embedLog' = embedLog \o [k \in 1..Len(corpus) |->
                                  [content |-> corpus[k].content,
                                   task_type |-> "retrieval_document"]]
    /\ IF outcome = "ok"
       THEN LET batch == KbBatch([k \in 1..Len(corpus) |->
                                    EmbedContent(corpus[k].content, "retrieval_document")])
            IN /\ writes' = Append(writes, batch)
               /\ collection' = [collection EXCEPT
                                   !.entries = StoreAdd(collection.entries, batch)]
               /\ pc' = "done"
       ELSE /\ pc' = "crashed"
            /\ UNCHANGED <<collection, writes>>
    /\ UNCHANGED <<script, corpus, startColl, confirmed, ids, embeddings, documents,
                   metadatas, recIdx, description_chunks, chunkIdx, skipped, batch_idx,
                   requests, call>>

\* The process has ended; the script is run again on the same corpus.
Rerun ==
    /\ pc \in {"done", "crashed"}
    /\ pc' = "start"
    /\ startColl' = collection
    /\ ResetLocals
    /\ UNCHANGED <<script, corpus, collection, requests, call>>

---------------------------------------------------------------------------
(* RetrievalService: retrieve_experiences of rag_api.py                    *)

over_fetch_factor == 3

Experience_(metadata) ==
    [id |-> metadata.experience_id, title |-> metadata.title,
     company |-> metadata.company, star_format |-> metadata.star_format]

\* The stored chunks in ascending distance from the query vector. The metric is
\* the store's; the model fixes one order for each kind of vector, and the
\* initial states range over every stored order.
RECURSIVE Reverse(_)
Reverse(seq) == IF seq = <<>> THEN <<>> ELSE Append(Reverse(Tail(seq)), seq[1])

Ranked(entries, vector) ==
    IF vector.task_type = "retrieval_query" THEN entries ELSE Reverse(entries)

\* collection.query(query_embeddings=[v], n_results=n): the store rejects a
\* request for no results or a negative number of them.
QueryRaises(n) == n <= 0

\* results['metadatas'][0] of a query that does not raise.
QueryMetadatas(entries, vector, n) ==
    LET ranked == Ranked(entries, vector)
    IN [k \in 1..Min(n, Len(ranked)) |-> ranked[k].metadata]

\* n_results=min(request.top_k * 3, collection.count())
NResults(top_k, entries) == Min(top_k * over_fetch_factor, Len(entries))

\* A faulty variant of FormatLoop: a chunk of a record already emitted is emitted again.
RECURSIVE FormatLoopNoDedup(_, _, _, _, _)
FormatLoopNoDedup(metas, i, experiences, seen, top_k) ==
    IF i > Len(metas) THEN experiences
    ELSE IF Len(experiences) >= top_k THEN experiences
    ELSE FormatLoopNoDedup(metas, i + 1, Append(experiences, Experience_(metas[i])),
                           seen \cup {metas[i].experience_id}, top_k)

\* The loop over results['ids'][0]: skip a record already seen, stop at top_k.
RECURSIVE FormatLoop(_, _, _, _, _)
FormatLoop(metas, i, experiences, seen, top_k) ==
    IF i > Len(metas) THEN experiences
    ELSE LET experience_id == metas[i].experience_id
         IN IF experience_id \in seen
            THEN FormatLoop(metas, i + 1, experiences, seen, top_k)
            ELSE IF Len(experiences) >= top_k THEN experiences
            ELSE FormatLoop(metas, i + 1, Append(experiences, Experience_(metas[i])),
                            seen \cup {experience_id}, top_k)

IdleRequest ==
    [pc |-> "idle", query |-> EmptyText, top_k |-> 0,
     query_embedding |-> NoVector, results |-> <<>>, status |-> 0,
     experiences |-> <<>>]

\* raise HTTPException(status_code=500, ...)
Fail(req) == [req EXCEPT !.pc = "done", !.status = 500, !.results = <<>>]

\* A request arrives; client.get_collection(name="experience_store") raises when
\* ingestion never ran.
Receive(r, query, top_k) ==
    /\ requests[r].pc = "idle"
    /\ LET req == [requests[r] EXCEPT !.query = query, !.top_k = top_k]
       IN requests' = [requests EXCEPT ![r] =
                         IF collection.exists THEN [req EXCEPT !.pc = "embed"]
                         ELSE Fail(req)]
    /\ UNCHANGED <<ingestVars, call>>

\* query_embedding = get_embedding(request.query, api_key)
EmbedQuery(r, svc) ==
    /\ requests[r].pc = "embed"
    /\ LET req == requests[r]
           res == get_embedding("rag_api", req.query, svc)
       IN requests' = [requests EXCEPT ![r] =
                         IF res.raised THEN Fail(req)
                         ELSE [req EXCEPT !.pc = "query",
                                          !.query_embedding = res.embedding]]
    /\ UNCHANGED <<ingestVars, call>>

\* A faulty variant of QueryStore: the read removes what it returns from the collection.
QueryStoreConsuming(r) ==
    /\ requests[r].pc = "query"
    /\ LET req == requests[r]
           n == NResults(req.top_k, collection.entries)
       IN /\ requests' = [requests EXCEPT ![r] =
                            IF QueryRaises(n) THEN Fail(req)
                            ELSE [req EXCEPT !.pc = "format",
                                             !.results = QueryMetadatas(collection.entries,
                                                            req.query_embedding, n)]]
          /\ collection' = [collection EXCEPT !.entries =
                              IF QueryRaises(n) THEN @
                              ELSE SubSeq(@, 1, Len(@) - n)]
    /\ UNCHANGED <<script, corpus, pc, startColl, confirmed, ids, embeddings, documents,
                   metadatas, recIdx, description_chunks, chunkIdx, embedLog, skipped,
                   writes, batch_idx, call>>

\* results = collection.query(...), an exception becoming HTTP 500.
QueryStore(r) ==
    /\ requests[r].pc = "query"
    /\ LET req == requests[r]
           n == NResults(req.top_k, collection.entries)
       IN requests' = [requests EXCEPT ![r] =
                         IF QueryRaises(n) THEN Fail(req)
                         ELSE [req EXCEPT !.pc = "format",
                                          !.results = QueryMetadatas(collection.entries,
                                                         req.query_embedding, n)]]
    /\ UNCHANGED <<ingestVars, call>>

\* The deduplication loop and the response.
Format(r) ==
    /\ requests[r].pc = "format"
    /\ LET req == requests[r]
       IN requests' = [requests EXCEPT ![r] =
                         [req EXCEPT !.pc = "done", !.status = 200,
                                     !.experiences =
                                        IF Len(req.results) > 0
                                        THEN FormatLoop(req.results, 1, <<>>, {}, req.top_k)
                                        ELSE <<>>]]
    /\ UNCHANGED <<ingestVars, call>>

---------------------------------------------------------------------------
(* The indexes and requests of the retrieval specifications                *)

NumRecords == 2         \* experience ids 1..NumRecords
MaxTopK == 2            \* top_k ranges over 0..MaxTopK
MaxChunks == 7          \* chunks in the index: one more than 3 * MaxTopK
NumRequests == 2        \* concurrent requests

TopKs == 0..MaxTopK

Queries == {Lit(<<"h", "i">>), Lit(<<"m", "y", " ", "Q", "u", "e", "r", "y">>)}

\* A chunk of experience e as ingestion stores it, with short field values.
IndexEntry(e, pos) ==
    Entry(Join(EmptyText, <<L_exp, Str(e), L_chunk, Str(pos)>>),
          EmbedContent(Lit(<<"d">>), "retrieval_document"), Lit(<<"d">>),
          [experience_id |-> e, title |-> Concat(Lit(<<"T">>), Str(e)),
           company |-> Lit(<<"C">>), chunk_index |-> pos, total_chunks |-> MaxChunks,
           star_format |-> Concat(Lit(<<"S">>), Str(e))])

\* Every index of at most n chunks of the records 1..NumRecords, in every order.
RECURSIVE OwnersUpTo(_)
OwnersUpTo(n) ==
    IF n = 0 THEN {<<>>}
    ELSE LET shorter == OwnersUpTo(n - 1)
         IN shorter \cup {Append(o, e) : o \in {s \in shorter : Len(s) = n - 1},
                                         e \in 1..NumRecords}

IndexOf(owners) == [k \in 1..Len(owners) |-> IndexEntry(owners[k], k)]

InitIdle ==
    /\ script = "ingest"
    /\ corpus = <<>>
    /\ pc = "done"
    /\ startColl = NoCollection
    /\ confirmed = FALSE
    /\ ids = <<>>
    /\ embeddings = <<>>
    /\ documents = <<>>
    /\ metadatas = <<>>
    /\ recIdx = 1
    /\ description_chunks = <<>>
    /\ chunkIdx = 0
    /\ embedLog = <<>>
    /\ skipped = <<>>
    /\ writes = <<>>
    /\ batch_idx = 0

InitRetrieve ==
    /\ InitIdle
    /\ collection \in {NoCollection}
           \cup {[exists |-> TRUE, entries |-> IndexOf(o)] : o \in OwnersUpTo(MaxChunks)}
    /\ requests = <<IdleRequest>>
    /\ call = NoCall

NextRetrieve ==
    \/ \E r \in DOMAIN requests, query \in Queries, top_k \in TopKs : Receive(r, query, top_k)
    \/ \E r \in DOMAIN requests, svc \in Services : EmbedQuery(r, svc)
    \/ \E r \in DOMAIN requests : QueryStore(r)
    \/ \E r \in DOMAIN requests : Format(r)

SpecRetrieve == InitRetrieve /\ [][NextRetrieve]_vars

\* Several requests in flight against one index; their steps interleave freely.
ConcurrentOwners == {<<>>, <<1, 1, 2>>, <<2, 1, 1, 1, 2, 1, 1>>}

InitConcurrent ==
    /\ InitIdle
    /\ collection \in {NoCollection}
           \cup {[exists |-> TRUE, entries |-> IndexOf(o)] : o \in ConcurrentOwners}
    /\ requests = [r \in 1..NumRequests |-> IdleRequest]
    /\ call = NoCall

NextConcurrent ==
    \/ \E r \in DOMAIN requests, top_k \in TopKs :
          Receive(r, Lit(<<"m", "y", " ", "Q", "u", "e", "r", "y">>), top_k)
    \/ \E r \in DOMAIN requests, svc \in Services : EmbedQuery(r, svc)
    \/ \E r \in DOMAIN requests : QueryStore(r)
    \/ \E r \in DOMAIN requests : Format(r)

SpecConcurrent == InitConcurrent /\ [][NextConcurrent]_vars

---------------------------------------------------------------------------
(* get_embedding on its own: every caller, text and pair of service answers *)

EmbedTexts ==
    Queries \cup {EmptyText, Rep(" ", 2), Lit(<<"x", " ", "y">>), Lit(<<"q", "u", "e", "r", "y">>),
                  Lit(<<"Q", "U", "E", "R", "Y", "?">>), Lit(<<"q", "u", "e", "r", "r", "y">>)}

Callers == {"ingest", "ingest_technical_qa", "rag_api"}

CallGetEmbedding(caller, text, svc) ==
    /\ call' = [caller |-> caller, text |-> text, svc |-> svc,
                result |-> get_embedding(caller, text, svc)]
    /\ UNCHANGED <<ingestVars, requests>>

InitEmbed ==
    /\ InitIdle
    /\ collection = NoCollection
    /\ requests = NoRequests
    /\ call = NoCall

NextEmbed == \E caller \in Callers, text \in EmbedTexts, svc \in Services :
                 CallGetEmbedding(caller, text, svc)

SpecEmbed == InitEmbed /\ [][NextEmbed]_vars

---------------------------------------------------------------------------
(* The chunkers on their own: every text, chunk_size and chunk_overlap     *)

MaxBlankLen == 3
MaxChunkSize == 4

\* Texts that are null, empty or whitespace only, and texts without a separator.
ChunkTexts ==
    {None, EmptyText, Lit(<<" ", "\n", "\t">>), Lit(<<"\n">>), Lit(<<"\t", " ">>)}
    \cup {Rep(" ", n) : n \in 1..MaxBlankLen}
    \cup {Rep("x", n) : n \in 1..(MaxChunkSize + 1)}

\* (chunk_size, chunk_overlap): the defaults and the small pairs the splitter
\* accepts (it refuses an overlap larger than the size).
ChunkParameters ==
    {<<DefaultChunkSize, DefaultChunkOverlap>>}
    \cup {q \in (1..MaxChunkSize) \X (0..MaxChunkSize) : q[2] < q[1]}

CallChunkDescription(description, chunk_size, chunk_overlap) ==
    /\ call' = [caller |-> "chunk_description", text |-> description,
                chunk_size |-> chunk_size, chunk_overlap |-> chunk_overlap,
                result |-> chunk_description(description, chunk_size, chunk_overlap)]
    /\ UNCHANGED <<ingestVars, requests>>

CallChunkText(text, chunk_size, chunk_overlap) ==
    /\ call' = [caller |-> "chunk_text", text |-> text,
                chunk_size |-> chunk_size, chunk_overlap |-> chunk_overlap,
                result |-> chunk_text(text, chunk_size, chunk_overlap)]
    /\ UNCHANGED <<ingestVars, requests>>

InitChunk ==
    /\ InitIdle
    /\ collection = NoCollection
    /\ requests = NoRequests
    /\ call = NoCall

NextChunk ==
    \E text \in ChunkTexts, q \in ChunkParameters :
       \/ CallChunkDescription(text, q[1], q[2])
       \/ CallChunkText(text, q[1], q[2])

SpecChunk == InitChunk /\ [][NextChunk]_vars

---------------------------------------------------------------------------
(* Ingestion, run after run on an unchanged corpus                         *)

Init ==
    /\ script \in Scripts
    /\ corpus \in CorporaOf(script)
    /\ pc = "start"
    /\ collection = NoCollection
    /\ startColl = NoCollection
    /\ confirmed = FALSE
    /\ ids = <<>>
    /\ embeddings = <<>>
    /\ documents = <<>>
    /\ metadatas = <<>>
    /\ recIdx = 1
    /\ description_chunks = <<>>
    /\ chunkIdx = 0
    /\ embedLog = <<>>
    /\ skipped = <<>>
    /\ writes = <<>>
    /\ batch_idx = 0
    /\ requests = NoRequests
    /\ call = NoCall

Next ==
    \/ StartRun
    \/ \E response \in Answers : Prompt(response)
    \/ NextRecord
    \/ \E svc \in Services : EmbedChunk(svc)
    \/ WriteBatch
    \/ KbRecreate
    \/ \E outcome \in {"ok", "error"} : KbAdd(outcome)
    \/ Rerun

Spec == Init /\ [][Next]_vars



---------------------------------------------------------------------------
(* The write phase on its own: main() has accumulated n entries            *)

MaxEntries == 201           \* up to three batches
BulkChunksPerRecord == 3    \* chunks of a record of the bulk corpus

\* A description that chunk_description cuts into c chunks.
DescriptionOfChunks(c) ==
    Rep("x", DefaultChunkSize + (c - 1) * (DefaultChunkSize - DefaultChunkOverlap))

\* A corpus whose chunks number n: records of BulkChunksPerRecord chunks and a
\* last record with the chunks that remain.
BulkCorpus(n) ==
    [i \in 1..((n + BulkChunksPerRecord - 1) \div BulkChunksPerRecord) |->
       Experience(i, DescriptionOfChunks(Min(BulkChunksPerRecord,
                                             n - (i - 1) * BulkChunksPerRecord)))]

\* The texts main() embeds for the whole corpus, record by record.
AllChunks(s, corp) == SubSeq([i \in 1..Len(corp) |-> ChunksOf(s, corp[i])], 1, Len(corp))

\* main() of ingest.py at the end of the record loop over BulkCorpus(n), every
\* embedding having succeeded at the first request.
InitWrite ==
    \E n \in 0..MaxEntries :
    \E bulk \in {SubSeq(BulkCorpus(n), 1, (n + BulkChunksPerRecord - 1) \div BulkChunksPerRecord)} :
    \E chunks \in {AllChunks("ingest", bulk)} :
       LET recOf(k) == (k - 1) \div BulkChunksPerRecord + 1
           idxOf(k) == (k - 1) % BulkChunksPerRecord
       IN /\ script = "ingest"
          /\ corpus = bulk
          /\ pc = "write"
          /\ collection = EmptyCollection
          /\ startColl = NoCollection
          /\ confirmed = FALSE
          /\ ids = [k \in 1..n |-> ExperienceChunkId(bulk[recOf(k)], idxOf(k))]
          /\ documents = [k \in 1..n |-> chunks[recOf(k)][idxOf(k) + 1]]
          /\ embeddings = [k \in 1..n |-> EmbedContent(documents[k], "retrieval_document")]
          /\ metadatas = [k \in 1..n |->
                            ExperienceMetadata(bulk[recOf(k)], idxOf(k),
                                               Len(chunks[recOf(k)]))]
          /\ recIdx = Len(bulk) + 1
          /\ description_chunks = IF n = 0 THEN <<>> ELSE chunks[Len(bulk)]
          /\ chunkIdx = Len(description_chunks)
          /\ embedLog = [k \in 1..n |->
                           [content |-> documents[k], task_type |-> "retrieval_document"]]
          /\ skipped = <<>>
          /\ writes = <<>>
          /\ batch_idx = 0
          /\ requests = NoRequests
          /\ call = NoCall

NextWrite == WriteBatch

SpecWrite == InitWrite /\ [][NextWrite]_vars


---------------------------------------------------------------------------
(* Properties of retrieval                                                 *)

Truncate(seq, n) == SubSeq(seq, 1, Min(n, Len(seq)))

KeysOf(metas) == [k \in 1..Len(metas) |-> metas[k].experience_id]

RecordsOf(entries) == {entries[k].metadata.experience_id : k \in 1..Len(entries)}

\* The positions at which a key occurs for the first time, in order.
FirstPositions(keys) ==
    LET first == {i \in 1..Len(keys) : \A j \in 1..(i - 1) : keys[j] # keys[i]}
        nth[n \in 0..Cardinality(first)] ==
            IF n = 0 THEN 0 ELSE CHOOSE i \in first : i > nth[n - 1] /\
                                   \A j \in first : j > nth[n - 1] => i <= j
    IN [n \in 1..Cardinality(first) |-> nth[n]]

Answered(req) == req.pc = "done" /\ req.status = 200

\* C1: for top_k = k >= 1 and an index whose chunks belong to at least k
\* records, an answered request holds exactly k experiences with distinct ids,
\* the records in ascending order of the distance of their best chunk.
C1_ExactlyTopKRecords ==
    \A r \in DOMAIN requests :
       LET req == requests[r]
           metas == QueryMetadatas(collection.entries, req.query_embedding,
                                   Len(collection.entries))
           keys == KeysOf(metas)
           best == FirstPositions(keys)
       IN (Answered(req) /\ req.top_k >= 1
             /\ Cardinality(RecordsOf(collection.entries)) >= req.top_k)
          => /\ Len(req.experiences) = req.top_k
             /\ \A a, b \in 1..Len(req.experiences) :
                   a # b => req.experiences[a].id # req.experiences[b].id
             /\ \A a \in 1..Len(req.experiences) :
                   a <= Len(best) /\ req.experiences[a].id = keys[best[a]]

\* C2: the response of an answered request is the first occurrence of each
\* grouping key among the candidates the store returned, in candidate order,
\* cut to top_k: no key twice, at most top_k entries, and a later chunk of an
\* emitted record neither takes a slot nor moves the record.
C2_FirstOccurrencesTruncated ==
    \A r \in DOMAIN requests :
       LET req == requests[r]
           keys == KeysOf(req.results)
           first == FirstPositions(keys)
       IN Answered(req)
          => /\ Len(req.experiences) = Min(req.top_k, Len(first))
             /\ Len(req.experiences) <= req.top_k
             /\ \A a, b \in 1..Len(req.experiences) :
                   a # b => req.experiences[a].id # req.experiences[b].id
             /\ \A a \in 1..Len(req.experiences) :
                   req.experiences[a] = Experience_(req.results[first[a]])

\* C2's case: an answered request whose candidates hold a second chunk of the
\* first record ahead of the first chunk of the second record, both emitted.
C2_Witness ==
    \E r \in DOMAIN requests :
       LET req == requests[r]
           keys == KeysOf(req.results)
       IN /\ Answered(req)
          /\ Len(req.experiences) = 2
          /\ Len(keys) >= 3
          /\ keys[2] = keys[1]
          /\ keys[3] # keys[1]
          /\ \E k \in 4..Len(keys) : keys[k] = keys[3]

\* C3: on a collection that exists and is empty, a request whose query was
\* embedded is answered with an empty list and not with HTTP 500.
C3_EmptyCollectionEmptyList ==
    \A r \in DOMAIN requests :
       LET req == requests[r]
       IN (req.pc = "done" /\ collection.exists /\ collection.entries = <<>>
             /\ req.query_embedding # NoVector)
          => req.status = 200 /\ req.experiences = <<>>

\* What a request returns when it runs alone against the collection, given the
\* vector its query was embedded to.
AloneResponse(coll, req) ==
    LET n == NResults(req.top_k, coll.entries)
        keys == KeysOf(QueryMetadatas(coll.entries, req.query_embedding, n))
        first == FirstPositions(keys)
    IN IF ~coll.exists \/ req.query_embedding = NoVector \/ QueryRaises(n)
       THEN [status |-> 500, ids |-> <<>>]
       ELSE [status |-> 200,
             ids |-> [a \in 1..Min(req.top_k, Len(first)) |-> keys[first[a]]]]

ResponseOf(req) ==
    [status |-> req.status,
     ids |-> [a \in 1..Len(req.experiences) |-> req.experiences[a].id]]

AloneInvariant ==
    \A r \in DOMAIN requests :
       requests[r].pc = "done" => ResponseOf(requests[r]) = AloneResponse(collection, requests[r])

\* C8: no step of a request changes the collection, and every finished request,
\* however the steps of the requests interleaved, holds the response it would
\* have produced alone.
C8_ReadOnlyAndIndependent == []AloneInvariant /\ [][collection' = collection]_vars

\* C8's case: one request is answered with two experiences while another, with a
\* different top_k, is between its query and its response.
C8_Witness ==
    \E r1, r2 \in DOMAIN requests :
       /\ r1 # r2
       /\ Answered(requests[r1])
       /\ Len(requests[r1].experiences) = 2
       /\ requests[r2].pc = "format"
       /\ requests[r2].top_k # requests[r1].top_k


---------------------------------------------------------------------------
(* Properties of the embedding client                                      *)

\* C9: a call of get_embedding sends one request with an explicit intent; it
\* sends a second one, without intent, exactly when the first failed, and never
\* a third; it returns the vector of the attempt that succeeded and raises when
\* both failed.
C9_TwoAttemptProtocol ==
    call # NoCall =>
       LET res == call.result
           sent == res.requests
           firstOk == call.svc[1] = "ok"
           secondOk == call.svc[2] = "ok"
       IN /\ Len(sent) \in {1, 2}
          /\ \A k \in 1..Len(sent) : sent[k].content = call.text
          /\ sent[1].task_type \in {"retrieval_query", "retrieval_document"}
          /\ Len(sent) = 2 <=> ~firstOk
          /\ Len(sent) = 2 => sent[2].task_type = Omitted
          /\ firstOk => ~res.raised /\ res.embedding = EmbedContent(call.text, sent[1].task_type)
          /\ (~firstOk /\ secondOk)
                => ~res.raised /\ res.embedding = EmbedContent(call.text, Omitted)
          /\ (~firstOk /\ ~secondOk) => res.raised

\* C9's case: the first request failed and the second, without intent, gave the
\* vector the call returned.
C9_Witness ==
    /\ call # NoCall
    /\ call.svc[1] = "malformed"
    /\ call.svc[2] = "ok"
    /\ Len(call.result.requests) = 2
    /\ call.result.embedding.task_type = Omitted

---------------------------------------------------------------------------
(* Properties of ingestion                                                 *)

Accumulated ==
    [k \in 1..Len(ids) |-> Entry(ids[k], embeddings[k], documents[k], metadatas[k])]

RECURSIVE Flatten(_)
Flatten(batches) ==
    IF batches = <<>> THEN <<>> ELSE batches[1] \o Flatten(Tail(batches))

\* The chunks the loops have passed so far, as <<i, chunk_idx>>, in loop order.
Passed ==
    UNION {{<<i, chunk_idx>> : chunk_idx \in 0..(Len(ChunksOf(script, corpus[i])) - 1)} :
              i \in {j \in 1..Len(corpus) : j < recIdx}}
    \cup (IF pc = "chunks" /\ recIdx <= Len(corpus)
          THEN {<<recIdx, chunk_idx>> : chunk_idx \in 0..(chunkIdx - 1)}
          ELSE {})

Before(p, q) == p[1] < q[1] \/ (p[1] = q[1] /\ p[2] < q[2])

SkippedSet == {skipped[k] : k \in 1..Len(skipped)}

\* The k-th chunk, in loop order, of those passed and not skipped.
Place(k) ==
    LET kept == Passed \ SkippedSet
    IN CHOOSE p \in kept : Cardinality({q \in kept : Before(q, p)}) = k - 1

\* The record id the metadata of a chunk names.
RecordIdIn(metadata) ==
    IF script = "ingest" THEN metadata.experience_id ELSE metadata.qa_id

RecordIdOf(i) == IF script = "ingest" THEN corpus[i].id ELSE QaId(corpus[i], i)

\* C4: in main() of ingest.py and ingest_technical_qa.py a chunk whose
\* embedding failed is skipped and nothing else is: the four lists have one
\* length, position k of each belongs to the k-th chunk that was embedded, in
\* record order and then chunk order, the chunks passed are those accumulated
\* and those skipped, what is written is what was accumulated, and the run dies
\* only at the prompt or on a batch the store rejects.
C4_OnlyFailedChunksSkipped ==
    script \in {"ingest", "ingest_technical_qa"} =>
       /\ Len(ids) = Len(embeddings)
       /\ Len(ids) = Len(documents)
       /\ Len(ids) = Len(metadatas)
       /\ Len(ids) = Cardinality(Passed \ SkippedSet)
       /\ \A k \in 1..Len(ids) :
             LET i == Place(k)[1]
                 chunk_idx == Place(k)[2]
                 chunks == ChunksOf(script, corpus[i])
             IN /\ ids[k] = ChunkIdOf(script, corpus[i], i, chunk_idx)
                /\ documents[k] = chunks[chunk_idx + 1]
                /\ embeddings[k].content = documents[k]
                /\ metadatas[k].chunk_index = chunk_idx
                /\ metadatas[k].total_chunks = Len(chunks)
                /\ RecordIdIn(metadatas[k]) = RecordIdOf(i)
       /\ SkippedSet \subseteq Passed
       /\ Flatten(writes) = Truncate(Accumulated, batch_size * Len(writes))
       /\ (pc = "done" /\ recIdx > Len(corpus)) => Flatten(writes) = Accumulated
       /\ pc = "crashed" =>
             \/ embedLog = <<>> /\ startColl.exists
             \/ writes # <<>> /\ DuplicateIds(writes[Len(writes)])

\* C4's case: the run of ingest.py ended after the first chunk of the first
\* record was skipped and its second chunk was embedded and written.
C4_Witness ==
    /\ script = "ingest"
    /\ pc = "done"
    /\ <<1, 0>> \in SkippedSet
    /\ <<1, 1>> \notin SkippedSet
    /\ \E k \in 1..Len(collection.entries) :
          collection.entries[k].id = ExperienceChunkId(corpus[1], 1)

BlankDescription(exp) ==
    LET description == Get(exp, "description", EmptyText)
    IN Falsy(description) \/ Strip(description) = EmptyText

\* C5: a record of ingest.py whose description is absent, null, empty or
\* whitespace only is chunked into one chunk, which is not empty and holds the
\* record's title, company, situation, task, action and result.
C5_FallbackChunk ==
    (script = "ingest" /\ pc = "chunks" /\ BlankDescription(corpus[recIdx])) =>
       LET exp == corpus[recIdx]
       IN /\ Len(description_chunks) = 1
          /\ TextLen(description_chunks[1]) > 0
          /\ \A field \in {exp.title, exp.company, exp.situation, exp.task,
                           exp.action, exp.result} :
                Contains(description_chunks[1], field)

\* C5's case: the record being processed has a whitespace-only description.
C5_Witness ==
    /\ script = "ingest"
    /\ pc = "chunks"
    /\ recIdx <= Len(corpus)
    /\ corpus[recIdx].description = Rep(" ", 2)
    /\ Len(description_chunks) = 1

\* C6: a run against the collection an earlier run of the same script on the
\* same corpus left ends with the ids and the number of entries that run left.
C6_RerunKeepsIds ==
    (pc \in {"done", "crashed"} /\ startColl.exists) =>
       /\ IdsOf(collection.entries) = IdsOf(startColl.entries)
       /\ Len(collection.entries) = Len(startColl.entries)

\* C7: while the user has not confirmed, a collection the run found is as the
\* run found it, and no embedding request and no write has been made.
C7_RecreateOnlyWhenConfirmed ==
    (startColl.exists /\ ~confirmed) =>
       /\ collection = startColl
       /\ embedLog = <<>>
       /\ writes = <<>>

---------------------------------------------------------------------------
(* Properties of the write phase                                           *)

CeilDiv(n, d) == IF n % d = 0 THEN n \div d ELSE n \div d + 1

\* C10: the write phase issues batches of 1 to 100 entries, batch j holding the
\* entries at positions 100 (j - 1) + 1 to min(100 j, n) of the accumulated
\* list, whatever record they belong to; when it ends it has issued ceil(n/100)
\* of them, none when n = 0, and their concatenation is the accumulated list.
C10_BatchedWrites ==
    LET n == Len(ids)
    IN /\ \A j \in 1..Len(writes) :
             /\ Len(writes[j]) >= 1
             /\ Len(writes[j]) <= 100
             /\ writes[j] = SubSeq(Accumulated, 100 * (j - 1) + 1, Min(100 * j, n))
       /\ Len(writes) <= CeilDiv(n, 100)
       /\ pc = "done" => /\ Len(writes) = CeilDiv(n, 100)
                         /\ Flatten(writes) = Accumulated
                         /\ collection.entries = Accumulated
       /\ n = 0 => writes = <<>>

\* C10's case: three batches were written, the last of one entry, and the first
\* boundary separates two chunks of one record.
C10_Witness ==
    /\ pc = "done"
    /\ Len(writes) = 3
    /\ Len(writes[3]) = 1
    /\ writes[1][100].metadata.experience_id = writes[2][1].metadata.experience_id


---------------------------------------------------------------------------
(* Properties of chunk ids                                                 *)

\* C11: in a run of ingest.py or ingest_technical_qa.py the accumulated
\* entries, each a different (record, chunk_index) pair, have pairwise
\* different chunk ids, whether a Q&A record is stored whole or in parts and
\* whether or not it has an id of its own.
C11_ChunkIdsUnique ==
    script \in {"ingest", "ingest_technical_qa"} =>
       \A k1, k2 \in 1..Len(ids) : k1 # k2 => ids[k1] # ids[k2]


---------------------------------------------------------------------------
(* Properties of the intent of embedding requests                          *)

\* C12: the first request of a call of get_embedding carries the intent
\* retrieval_query when retrieve_experiences made the call, whatever the query
\* text is, and retrieval_document when an ingestion script made it.
C12_IntentByCaller ==
    call # NoCall =>
       call.result.requests[1].task_type =
          IF call.caller = "rag_api" THEN "retrieval_query" ELSE "retrieval_document"


---------------------------------------------------------------------------
(* Properties of the chunkers                                              *)

BlankText(text) == Falsy(text) \/ Strip(text) = EmptyText

\* C13: chunk_description and chunk_text, called on a text that is null, empty
\* or whitespace only, return exactly one chunk, the empty string, whatever
\* chunk_size and chunk_overlap are.
C13_BlankGivesOneEmptyChunk ==
    (call # NoCall /\ BlankText(call.text)) => call.result = <<EmptyText>>

====
